---------------------------- MODULE Spec2Model ----------------------------
(***************************************************************************)
(* A model of mtrs::Matrix<T>: the row-major storage core (matrix.rs), the *)
(* index sugar (impls/basic.rs), transpose / determinant / inverse         *)
(* (math.rs) and the matrix product (impls/math.rs), with T an integer     *)
(* element type.                                                           *)
(*                                                                         *)
(* A Vec<T> is a sequence (1-based here, 0-based in the source: the flat   *)
(* index i of the source is position i + 1).  A panic is an outcome        *)
(* "panic" of the call; the fields keep what the call had written before   *)
(* it unwound.                                                             *)
(***************************************************************************)
EXTENDS Integers, Sequences, FiniteSets, TLC

VARIABLES height, width, data, ret

vars == <<height, width, data, ret>>

(***************************************************************************)
(* Bounds of the model.                                                    *)
(***************************************************************************)
\* largest height / width of a matrix of the storage specifications
MaxDim == 2
\* largest side of a matrix given to determinant / inverse
DetDim == 3

\* T::zero() and T::one()
Zero == 0
One == 1

\* the element values the storage operations are exercised with
Vals == {Zero, One}

\* usize arithmetic: a release build wraps modulo the word size.  The word
\* is modelled narrower than the 64 bits of the usual target; every size the
\* model forms stays far below it, so the wrap behaves as that of 2^64.
UsizeMod == 2^16

Dims == 0..MaxDim

\* a location or size argument: a usize n (a sequence of one number here)
\* or a pair (h, w)
Sizes == {<<n>> : n \in Dims} \cup (Dims \X Dims)

\* Size::dim(): n is (n, n), a pair is itself
Dim(s) == IF Len(s) = 1 THEN <<s[1], s[1]>> ELSE s

\* a Vec holding the elements of f: the sequence in its evaluated form
Vec(f) == <<>> \o f

\* vec![x; n]
Fill(x, n) == Vec([i \in 1..n |-> x])

\* all sequences over S of length n
SeqsOfLen(S, n) == [1..n -> S]

\* all sequences over S of length at most n
SeqsUpTo(S, n) == UNION {SeqsOfLen(S, k) : k \in 0..n}

\* the value of a call that returns nothing of interest
NoRet == [op |-> "none", loc |-> <<>>, val |-> 0, out |-> "ok", res |-> <<>>]

Ret(op, loc, val, out, res) ==
    [op |-> op, loc |-> loc, val |-> val, out |-> out, res |-> res]

(***************************************************************************)
(* Constructors (matrix.rs).  A matrix value is a record [h, w, d].        *)
(***************************************************************************)
Mat(h, w, d) == [h |-> h, w |-> w, d |-> d]

\* Matrix::from_vec / Matrix::from_slice: the body is taken as it is
from_vec(size, body) == Mat(Dim(size)[1], Dim(size)[2], body)

from_slice(size, body) == Mat(Dim(size)[1], Dim(size)[2], body)

\* Matrix::zeros
zeros(size) == Mat(Dim(size)[1], Dim(size)[2], Fill(Zero, Dim(size)[2] * Dim(size)[1]))

\* Matrix::ones
ones(size) == Mat(Dim(size)[1], Dim(size)[2], Fill(One, Dim(size)[2] * Dim(size)[1]))

\* a bounds check of set on the flat index alone, as get makes it
SetOutOfBoundsFlat(m, h, w) == h * m.w + w >= Len(m.d)

\* the bounds check of Matrix::set: each axis on its own
SetOutOfBounds(m, h, w) == h >= m.h \/ w >= m.w

\* Matrix::set on a matrix value: <<outcome, matrix>>
set(m, loc, val) ==
    LET h == Dim(loc)[1]
        w == Dim(loc)[2]
        idx == h * m.w + w
    IN  IF SetOutOfBounds(m, h, w) THEN <<"err", m>>
        ELSE IF idx >= Len(m.d) THEN <<"panic", m>>
        ELSE <<"ok", Mat(m.h, m.w, [m.d EXCEPT ![idx + 1] = val])>>

\* Matrix::diag: zeros(len), then set(i, diagonal[i]) for every i
RECURSIVE DiagLoop(_, _, _)
DiagLoop(m, diagonal, i) ==
    IF i > Len(diagonal) THEN m
    ELSE DiagLoop(set(m, <<i - 1>>, diagonal[i])[2], diagonal, i + 1)

diag(diagonal) == DiagLoop(zeros(<<Len(diagonal)>>), diagonal, 1)

\* Matrix::identity
identity(n) == diag(Fill(One, n))

\* the matrix the variables hold
Self == Mat(height, width, data)

\* the variables take the fields of matrix value m
Becomes(m) == height' = m.h /\ width' = m.w /\ data' = m.d

(***************************************************************************)
(* Reads (matrix.rs, impls/basic.rs).                                      *)
(***************************************************************************)
\* the flat index Matrix::get and Index::index form
FlatIndex(m, loc) == Dim(loc)[1] * m.w + Dim(loc)[2]

\* Matrix::get: Vec::get on the flat index; <<"some", x>> or <<"none", 0>>
get(m, loc) ==
    IF FlatIndex(m, loc) < Len(m.d) THEN <<"some", m.d[FlatIndex(m, loc) + 1]>>
    ELSE <<"none", 0>>

\* Index::index: the slice index on the flat index panics past the end
index(m, loc) ==
    IF FlatIndex(m, loc) < Len(m.d) THEN <<"ok", m.d[FlatIndex(m, loc) + 1]>>
    ELSE <<"panic", 0>>

\* Matrix::as_vec: height rows of width entries
as_vec(m) == Vec([r \in 1..m.h |-> Vec([c \in 1..m.w |-> m.d[(r - 1) * m.w + c]])])

\* iter().flat_map(|row| row.iter()).collect()
RECURSIVE Flatten(_)
Flatten(rows) == IF rows = <<>> THEN <<>> ELSE Head(rows) \o Flatten(Tail(rows))

(***************************************************************************)
(* Mutating operations.                                                    *)
(***************************************************************************)
\* Vec::resize(n, x): truncate, or pad with x
VecResize(d, n, x) == Vec([i \in 1..n |-> IF i <= Len(d) THEN d[i] ELSE x])

\* a resize that adds the new height's rows to the old ones
ResizeRowsLenAdded(m, nh) == (m.h * m.w + nh * m.w) % UsizeMod

\* the length Matrix::resize gives the data when the height changes, in a
\* build that wraps: height * width + (new - height) * width
ResizeRowsLen(m, nh) == (m.h * m.w + ((nh - m.h) % UsizeMod) * m.w) % UsizeMod

\* the height step of Matrix::resize; checked is the build's overflow check
ResizeRows(m, nh, checked) ==
    IF m.h = nh THEN <<"ok", m>>
    ELSE IF checked /\ nh < m.h THEN <<"panic", m>>
    ELSE <<"ok", Mat(nh, m.w, VecResize(m.d, ResizeRowsLen(m, nh), Zero))>>

\* a width step that resizes the flat data instead of every row
ResizeColsFlat(m, nw) == Mat(m.h, nw, VecResize(m.d, m.h * nw, Zero))

\* the width step of Matrix::resize: every row of as_vec resized to
\* len + width - self.width
ResizeCols(m, nw) ==
    IF m.w = nw THEN m
    ELSE LET new_dat == as_vec(m)
         IN  Mat(m.h, nw,
                 Flatten(Vec([r \in 1..Len(new_dat) |->
                            VecResize(new_dat[r], Len(new_dat[r]) + nw - m.w, Zero)])))

\* Matrix::resize
resize(m, size, checked) ==
    LET rows == ResizeRows(m, Dim(size)[1], checked)
    IN  IF rows[1] = "panic" THEN rows
        ELSE <<"ok", ResizeCols(rows[2], Dim(size)[2])>>

\* Matrix::transpose: v[0] and transposed[0] panic on an empty outer vector;
\* the data is assigned before height and width are
transpose(m) ==
    LET v == as_vec(m)
    IN  IF Len(v) = 0 THEN <<"panic", m>>
        ELSE LET transposed ==
                     Vec([i \in 1..Len(v[1]) |-> Vec([j \in 1..Len(v) |-> v[j][i]])])
             IN  IF Len(transposed) = 0
                 THEN <<"panic", Mat(m.h, m.w, Flatten(transposed))>>
                 ELSE <<"ok", Mat(Len(transposed[1]), Len(transposed),
                                  Flatten(transposed))>>

\* Matrix::erase: every element's bytes zeroed
erase(m) == Mat(m.h, m.w, Fill(Zero, Len(m.d)))

(***************************************************************************)
(* Arithmetic (math.rs, impls/math.rs).                                    *)
(***************************************************************************)
\* the integer division of T: it truncates toward zero
TruncDiv(a, b) ==
    IF (a >= 0) = (b > 0) THEN (IF a >= 0 THEN a ELSE 0 - a) \div (IF b > 0 THEN b ELSE 0 - b)
    ELSE 0 - ((IF a >= 0 THEN a ELSE 0 - a) \div (IF b > 0 THEN b ELSE 0 - b))

\* Matrix::scalar_mul
scalar_mul(m, value) == Mat(m.h, m.w, Vec([i \in 1..Len(m.d) |-> m.d[i] * value]))

\* Matrix::get_col of an index below the width
get_col(m, c) == Vec([r \in 1..m.h |-> m.d[(r - 1) * m.w + c + 1]])

\* Matrix::cols
cols(m) == Vec([c \in 1..m.w |-> get_col(m, c - 1)])

\* row.iter().zip(col.iter()).map(|(l, r)| l * r).sum(): zip stops at the
\* shorter of the two
RECURSIVE ZipSum(_, _, _)
ZipSum(row, col, k) ==
    IF k > Len(row) \/ k > Len(col) THEN Zero
    ELSE row[k] * col[k] + ZipSum(row, col, k + 1)

\* Mul::mul: <<outcome, matrix>>; body[0] panics when the left operand has
\* no rows
mul(l, r) ==
    IF l.w # r.h THEN <<"panic", l>>
    ELSE LET rows == as_vec(l)
             columns == cols(r)
             body == Vec([i \in 1..l.h |->
                        Vec([j \in 1..Len(columns) |-> ZipSum(rows[i], columns[j], 1)])])
         IN  IF Len(body) = 0 THEN <<"panic", l>>
             ELSE <<"ok", from_vec(<<Len(body), Len(body[1])>>, Flatten(body))>>

\* the inner loop of Display::fmt: write!(fmt, "{} ", self.data[index]) for
\* index in from..to
RECURSIVE FmtRange(_, _, _)
FmtRange(d, from, to) ==
    IF from >= to THEN ""
    ELSE ToString(d[from + One]) \o " " \o FmtRange(d, from + One, to)

\* the outer loop of Display::fmt, from row (counted from one) on: the range
\* of a row starts at (row - 1) * height and ends before width * row
RECURSIVE FmtRows(_, _)
FmtRows(m, row) ==
    IF row > m.h THEN ""
    ELSE FmtRange(m.d, (row - One) * m.h, m.w * row) \o "\n" \o FmtRows(m, row + One)

\* Display::fmt: the text written
fmt(m) == FmtRows(m, One)

\* mat[r * width + c]
At(mat, w, r, c) == mat[r * w + c + 1]

\* the pivot search of determinant: the first row from i whose entry in
\* column i is not zero; the search is bounded by the width
RECURSIVE PivotSearch(_, _, _, _)
PivotSearch(mat, w, i, idx) ==
    IF idx < w /\ At(mat, w, idx, i) = Zero THEN PivotSearch(mat, w, i, idx + 1)
    ELSE idx

\* rows a and b exchanged in their first h columns
SwapRows(mat, h, w, a, b) ==
    Vec([p \in 1..Len(mat) |->
        LET r == (p - 1) \div w
            c == (p - 1) % w
        IN  IF c < h /\ r = a THEN At(mat, w, b, c)
            ELSE IF c < h /\ r = b THEN At(mat, w, a, c)
            ELSE mat[p]])

\* whether the exchange of rows i and idx negates det
SwapNegates(idx, i) == (idx - i) % 2 # 0

\* the elimination of determinant for pivot row i: every row j > i becomes
\* diag * row j - mat[j][i] * temp, with temp the pivot row and diag = temp[i].
\* A row's new entries read only its own old entries and temp, so the rows
\* are rewritten here at once.
Eliminate(mat, h, w, i) ==
    Vec([p \in 1..Len(mat) |->
        LET r == (p - 1) \div w
            c == (p - 1) % w
        IN  IF r > i /\ r < h /\ c < h
            THEN At(mat, w, i, i) * mat[p] - At(mat, w, r, i) * At(mat, w, i, c)
            ELSE mat[p]])

\* total scaled by the pivot once for a pivot step, not once for every row
ScaleTotalOnce(total, pivot, j, h) == total * pivot

\* total = total * diag, once for every row j in i+1 .. h-1
RECURSIVE ScaleTotal(_, _, _, _)
ScaleTotal(total, pivot, j, h) ==
    IF j >= h THEN total ELSE ScaleTotal(total * pivot, pivot, j + 1, h)

\* the loop of determinant over the pivot index i: the eliminated matrix,
\* det and total
RECURSIVE DetLoop(_, _, _, _, _, _)
DetLoop(mat, det, total, i, h, w) ==
    IF i >= h THEN [mat |-> mat, det |-> det, total |-> total]
    ELSE LET idx == PivotSearch(mat, w, i, i)
         IN  IF idx = h THEN DetLoop(mat, det, total, i + 1, h, w)
             ELSE LET swapped == IF idx # i THEN SwapRows(mat, h, w, idx, i) ELSE mat
                      det1 == IF idx # i /\ SwapNegates(idx, i) THEN Zero - det ELSE det
                  IN  DetLoop(Eliminate(swapped, h, w, i), det1,
                              ScaleTotal(total, At(swapped, w, i, i), i + 1, h),
                              i + 1, h, w)

\* det = det * mat[i * width + i] for every i
RECURSIVE DiagProduct(_, _, _, _, _)
DiagProduct(mat, det, i, h, w) ==
    IF i >= h THEN det ELSE DiagProduct(mat, det * At(mat, w, i, i), i + 1, h, w)

\* the eliminated matrix, the signed diagonal product and total of a square m
Elimination(m) ==
    LET e == DetLoop(m.d, One, One, 0, m.h, m.w)
    IN  [mat |-> e.mat, det |-> DiagProduct(e.mat, e.det, 0, m.h, m.w), total |-> e.total]

\* Matrix::determinant: <<"none", 0>>, <<"some", det / total>>, or a panic on
\* a division by zero
determinant(m) ==
    IF m.h # m.w THEN <<"none", 0>>
    ELSE LET e == Elimination(m)
         IN  IF e.total = Zero THEN <<"panic", 0>>
             ELSE <<"some", TruncDiv(e.det, e.total)>>

\* an inverse that does not test the determinant for zero: 1 / det then
\* divides by zero
InverseUnchecked(m) ==
    IF m.h # m.w THEN <<"none", m>>
    ELSE LET det == determinant(m)
         IN  IF det[1] = "panic" \/ det[2] = Zero THEN <<"panic", m>>
             ELSE <<"some", scalar_mul(m, TruncDiv(One, det[2]))>>

\* Matrix::inverse: <<"none", m>> or <<"some", m * (1 / det)>>
inverse(m) ==
    IF m.h # m.w THEN <<"none", m>>
    ELSE LET det == determinant(m)
         IN  IF det[1] = "panic" THEN <<"panic", m>>
             ELSE IF det[2] = Zero THEN <<"none", m>>
             ELSE <<"some", scalar_mul(m, TruncDiv(One, det[2]))>>

(***************************************************************************)
(* The storage specification: a matrix built by a constructor, then any    *)
(* sequence of set, resize, transpose and erase.                           *)
(***************************************************************************)
\* the well-formed constructions
Built ==
    {zeros(s) : s \in Sizes} \cup {ones(s) : s \in Sizes}
    \cup {identity(n) : n \in Dims}
    \cup {diag(v) : v \in SeqsUpTo(Vals, MaxDim)}
    \cup UNION {{from_vec(s, b) : b \in SeqsOfLen(Vals, Dim(s)[1] * Dim(s)[2])} : s \in Sizes}
    \cup UNION {{from_slice(s, b) : b \in SeqsOfLen(Vals, Dim(s)[1] * Dim(s)[2])} : s \in Sizes}

Init ==
    \E m \in Built :
        /\ height = m.h
        /\ width = m.w
        /\ data = m.d
        /\ ret = NoRet

Set ==
    \E loc \in Sizes, val \in Vals :
        LET r == set(Self, loc, val)
        IN  Becomes(r[2]) /\ ret' = Ret("set", Dim(loc), val, r[1], <<>>)

Resize ==
    \E size \in Sizes, checked \in BOOLEAN :
        LET r == resize(Self, size, checked)
        IN  Becomes(r[2]) /\ ret' = Ret("resize", Dim(size), 0, r[1], <<height, width>>)

Transpose ==
    LET r == transpose(Self)
    IN  Becomes(r[2]) /\ ret' = Ret("transpose", <<>>, 0, r[1], <<>>)

Erase ==
    /\ Becomes(erase(Self))
    /\ ret' = Ret("erase", <<>>, 0, "ok", <<>>)

Next == Set \/ Resize \/ Transpose \/ Erase

Spec == Init /\ [][Next]_vars

(***************************************************************************)
(* The read specification: a well-formed matrix read through get and the   *)
(* index operator.                                                         *)
(***************************************************************************)
Get ==
    \E loc \in Sizes :
        /\ ret' = Ret("get", Dim(loc), get(Self, loc)[2], get(Self, loc)[1], <<>>)
        /\ UNCHANGED <<height, width, data>>

Index ==
    \E loc \in Sizes :
        /\ ret' = Ret("index", Dim(loc), index(Self, loc)[2], index(Self, loc)[1], <<>>)
        /\ UNCHANGED <<height, width, data>>

NextRead == Get \/ Index

SpecRead == Init /\ [][NextRead]_vars

(***************************************************************************)
(* The construction specification: from_vec and from_slice given any body, *)
(* of the right length or not, then read.                                  *)
(***************************************************************************)
InitRaw ==
    \E s \in Sizes, b \in SeqsUpTo(Vals, MaxDim * MaxDim) :
        \/ /\ height = from_vec(s, b).h
           /\ width = from_vec(s, b).w
           /\ data = from_vec(s, b).d
           /\ ret = Ret("from_vec", Dim(s), Len(b), "ok", <<>>)
        \/ /\ height = from_slice(s, b).h
           /\ width = from_slice(s, b).w
           /\ data = from_slice(s, b).d
           /\ ret = Ret("from_slice", Dim(s), Len(b), "ok", <<>>)

SpecRaw == InitRaw /\ [][NextRead]_vars

(***************************************************************************)
(* The determinant specification: a matrix is built, then determinant or   *)
(* inverse is called on it once (both are pure, a second call returns the  *)
(* same), and the inverse is multiplied with the matrix.                   *)
(***************************************************************************)
\* the element values of the matrices given to determinant
DetVals == {Zero, One}

\* the matrices of tests/primary.rs (test_determinant) and of the spec
TestMatrices ==
    { from_vec(<<2>>, <<1, 2, 3, 4>>),
      from_vec(<<3>>, <<1, 2, 3, 4, 5, 6, 7, 8, 9>>),
      from_vec(<<4>>, <<1, 0, 2, -1, 3, 0, 0, 5, 2, 1, 4, -3, 1, 0, 5, 0>>),
      from_vec(<<4>>, <<1, 2, 3, 4, 5, 6, 7, 8, 9, 10, 11, 12, 13, 14, 15, 16>>) }

\* the variables hold matrix value m, and no call has returned yet
StartsAs(m) == height = m.h /\ width = m.w /\ data = m.d /\ ret = NoRet

InitDet ==
    \/ \E m \in TestMatrices : StartsAs(m)
    \/ \E h \in 0..DetDim, w \in 0..DetDim :
          \E b \in SeqsOfLen(DetVals, h * w) : StartsAs(from_vec(<<h, w>>, b))

Determinant ==
    /\ ret.op = "none"
    /\ LET det == determinant(Self)
       IN  ret' = Ret("determinant", <<>>, det[2], det[1], <<>>)
    /\ UNCHANGED <<height, width, data>>

Inverse ==
    /\ ret.op = "none"
    /\ LET inv == inverse(Self)
       IN  ret' = Ret("inverse", <<inv[2].h, inv[2].w>>, 0, inv[1], inv[2].d)
    /\ UNCHANGED <<height, width, data>>

\* inverse(A) * A, for the inverse the last call returned
MulInverse ==
    /\ ret.op = "inverse"
    /\ ret.out = "some"
    /\ LET p == mul(Mat(ret.loc[1], ret.loc[2], ret.res), Self)
       IN  ret' = Ret("mul", <<p[2].h, p[2].w>>, 0, p[1], p[2].d)
    /\ UNCHANGED <<height, width, data>>

NextDet == Determinant \/ Inverse \/ MulInverse

SpecDet == InitDet /\ [][NextDet]_vars

(***************************************************************************)
(* The product specification: a matrix is built and multiplied once by a   *)
(* second built matrix, a = a * b; ret holds the right operand.            *)
(***************************************************************************)
Mul ==
    /\ ret.op = "none"
    /\ \E other \in Built :
          LET p == mul(Self, other)
          IN  /\ Becomes(p[2])
              /\ ret' = Ret("mul", <<other.h, other.w>>, 0, p[1], other.d)

SpecMul == Init /\ [][Mul]_vars

(***************************************************************************)
(* The display specification: a matrix is built by from_vec and formatted. *)
(***************************************************************************)
\* the element values of the displayed matrices: those of test_display, and
\* a negative one
ShowVals == {0 - One, One, 2, 3, 4}

InitShow ==
    \E s \in Sizes, b \in SeqsUpTo(ShowVals, MaxDim * MaxDim) :
        /\ Len(b) = Dim(s)[1] * Dim(s)[2]
        /\ StartsAs(from_vec(s, b))

Display ==
    /\ ret.op = "none"
    /\ ret' = Ret("fmt", <<>>, 0, "ok", fmt(Self))
    /\ UNCHANGED <<height, width, data>>

SpecShow == InitShow /\ [][Display]_vars

(***************************************************************************)
(* Properties.                                                             *)
(***************************************************************************)
\* the matrix the variables hold after the step
SelfNext == Mat(height', width', data')

\* C1: invariant I1: the data of a matrix built by a well-formed constructor
\* holds height * width elements after any sequence of set, resize,
\* transpose and erase calls, successful or failing.
I1_DataLength == Len(data) = height * width

\* C1: a resize of a 2 x 2 matrix to a smaller height has failed (the
\* subtraction new - height, in a build that checks overflow)
I1_AfterFailedResize ==
    /\ ret.op = "resize"
    /\ ret.out = "panic"
    /\ ret.loc[1] < height
    /\ height = 2
    /\ width = 2

\* the determinant of the square matrix given as a sequence of rows, by
\* cofactor expansion along its first row
RECURSIVE Cofactor(_)
RECURSIVE CofactorSum(_, _)
Minor(rows, c) ==
    Vec([r \in 1..(Len(rows) - 1) |->
        Vec([k \in 1..(Len(rows) - 1) |-> rows[r + 1][IF k < c THEN k ELSE k + 1]])])

CofactorSum(rows, c) ==
    IF c > Len(rows) THEN 0
    ELSE (IF c % 2 = 1 THEN 1 ELSE -1) * rows[1][c] * Cofactor(Minor(rows, c))
         + CofactorSum(rows, c + 1)

Cofactor(rows) == IF Len(rows) = 0 THEN 1 ELSE CofactorSum(rows, 1)

\* C2: determinant returns the exact determinant (the cofactor value) of
\* every square integer matrix.
DeterminantIsExact ==
    (ret.op = "determinant" /\ height = width)
        => (ret.out = "some" /\ ret.val = Cofactor(as_vec(Self)))

\* m with rows p and q exchanged
RowsExchanged(m, p, q) ==
    Mat(m.h, m.w,
        Flatten(Vec([r \in 1..m.h |->
            as_vec(m)[IF r = p + 1 THEN q + 1 ELSE IF r = q + 1 THEN p + 1 ELSE r]])))

\* C3: exchanging two distinct rows negates the determinant.
RowSwapNegates ==
    (ret.op = "determinant" /\ ret.out = "some")
        => \A p \in 0..(height - 1), q \in 0..(height - 1) :
              p # q => determinant(RowsExchanged(Self, p, q)) = <<"some", 0 - ret.val>>

\* the multiples of a row that are added to another
Scalars == {-1, 1, 2}

\* m with row q replaced by row q + k * row p
RowAdded(m, p, q, k) ==
    Mat(m.h, m.w,
        Flatten(Vec([r \in 1..m.h |->
            IF r = q + 1
            THEN Vec([c \in 1..m.w |-> as_vec(m)[q + 1][c] + k * as_vec(m)[p + 1][c]])
            ELSE as_vec(m)[r]])))

\* C4: adding a multiple of one row to another leaves the determinant as it is.
RowAddInvariant ==
    (ret.op = "determinant" /\ ret.out = "some")
        => \A p \in 0..(height - 1), q \in 0..(height - 1), k \in Scalars :
              p # q => determinant(RowAdded(Self, p, q, k)) = <<"some", ret.val>>

\* 1 / determinant is exact in the element arithmetic
ExactReciprocal(m) ==
    /\ determinant(m)[1] = "some"
    /\ determinant(m)[2] # Zero
    /\ TruncDiv(One, determinant(m)[2]) * determinant(m)[2] = One

\* C5: whenever inverse(A) is present and 1 / determinant is exact,
\* inverse(A) * A is identity(A.height).
InverseTimesSelfIsIdentity ==
    (ret.op = "mul" /\ ExactReciprocal(Self))
        => (ret.out = "ok" /\ Mat(ret.loc[1], ret.loc[2], ret.res) = identity(height))

\* C6: a transpose completes, swaps height and width and puts the element
\* formerly at (r, c) at (c, r), for every shape; a second transpose completes
\* too and gives the original matrix back.
TransposeInvolutive ==
    [][ret'.op = "transpose" =>
        /\ ret'.out = "ok"
        /\ height' = width
        /\ width' = height
        /\ Len(data') = Len(data)
        /\ \A r \in 0..(height - 1), c \in 0..(width - 1) :
              data'[c * width' + r + 1] = data[r * width + c + 1]
        /\ transpose(SelfNext) = <<"ok", Self>>]_vars

\* C7: set checks each axis on its own: a location with loc.height >= height
\* or loc.width >= width is an error that leaves the matrix as it was; any
\* other location succeeds, changes that element alone, and a following get
\* of the location returns the value.
SetChecksEachAxis ==
    [][ret'.op = "set" =>
        IF ret'.loc[1] >= height \/ ret'.loc[2] >= width
        THEN ret'.out = "err" /\ UNCHANGED <<height, width, data>>
        ELSE /\ ret'.out = "ok"
             /\ height' = height
             /\ width' = width
             /\ data' = [data EXCEPT ![ret'.loc[1] * width + ret'.loc[2] + 1] = ret'.val]
             /\ get(SelfNext, ret'.loc) = <<"some", ret'.val>>]_vars

\* C7: a set was refused for its column although the flat index of the
\* location lies inside the data
SetRefusedInsideData ==
    /\ ret.op = "set"
    /\ ret.out = "err"
    /\ ret.loc[1] < height
    /\ ret.loc[2] >= width
    /\ ret.loc[1] * width + ret.loc[2] < Len(data)

\* C8: get returns absent for every location with row >= height or
\* column >= width, and the element at row * width + column for any other.
GetChecksEachAxis ==
    ret.op = "get" =>
        IF ret.loc[1] >= height \/ ret.loc[2] >= width
        THEN ret.out = "none"
        ELSE ret.out = "some" /\ ret.val = data[ret.loc[1] * width + ret.loc[2] + 1]

\* C9: from_vec and from_slice never return a matrix whose data length
\* differs from height * width.
FromVecChecksLength ==
    (ret.op \in {"from_vec", "from_slice"} /\ ret.out = "ok")
        => Len(data) = height * width

\* C10: the index operator panics for every position with row >= height or
\* col >= width, and yields the element at (row, col), as get does, for any
\* other.
IndexChecksEachAxis ==
    ret.op = "index" =>
        IF ret.loc[1] >= height \/ ret.loc[2] >= width
        THEN ret.out = "panic"
        ELSE /\ ret.out = "ok"
             /\ ret.val = data[ret.loc[1] * width + ret.loc[2] + 1]
             /\ get(Self, ret.loc) = <<"some", ret.val>>

\* C11: determinant returns absent exactly for a non-square matrix and a
\* value for every square one (zero for a singular one, the 0 x 0 matrix
\* included); inverse returns absent exactly for a matrix that is non-square
\* or has determinant zero, and never fails fatally.
AbsentExactlyWhenNotApplicable ==
    /\ ret.op = "determinant" =>
          /\ ret.out \in {"some", "none"}
          /\ (ret.out = "none") <=> (height # width)
          /\ (height = width /\ Cofactor(as_vec(Self)) = 0) => ret.val = Zero
    /\ ret.op = "inverse" =>
          /\ ret.out \in {"some", "none"}
          /\ (ret.out = "none") <=> (height # width \/ Cofactor(as_vec(Self)) = 0)

\* C11: inverse has returned absent for a singular 2 x 2 matrix that is not
\* the zero matrix
InverseAbsentForSingular ==
    /\ ret.op = "inverse"
    /\ ret.out = "none"
    /\ height = 2
    /\ width = 2
    /\ data = <<One, One, One, One>>

\* the element at row r, column c (from zero) of the matrix before the step
OldAt(r, c) == data[r * width + c + 1]

\* the element at row r, column c (from zero) of the matrix after the step
NewAt(r, c) == data'[r * width' + c + 1]

\* C12: a resize to a size no smaller on either axis gives a matrix of the
\* new size that keeps every old element at its row and column and is zero
\* everywhere else.
GrowPadsWithZero ==
    [][(ret'.op = "resize" /\ ret'.loc[1] >= height /\ ret'.loc[2] >= width) =>
          /\ ret'.out = "ok"
          /\ height' = ret'.loc[1]
          /\ width' = ret'.loc[2]
          /\ Len(data') = height' * width'
          /\ \A r \in 0..(height' - 1), c \in 0..(width' - 1) :
                NewAt(r, c) = IF r < height /\ c < width THEN OldAt(r, c) ELSE Zero]_vars

\* C12: a 1 x 1 matrix holding one has been resized to 2 x 2
GrownOnBothAxes ==
    /\ ret.op = "resize"
    /\ ret.out = "ok"
    /\ ret.res = <<1, 1>>
    /\ height = 2
    /\ width = 2
    /\ data = <<One, Zero, Zero, Zero>>

\* C13: a resize to a size smaller on an axis completes, in every build, and
\* gives a matrix of the new size that keeps every old element that is
\* inside the new size at its row and column.
ShrinkTruncates ==
    [][(ret'.op = "resize" /\ (ret'.loc[1] < height \/ ret'.loc[2] < width)) =>
          /\ ret'.out = "ok"
          /\ height' = ret'.loc[1]
          /\ width' = ret'.loc[2]
          /\ Len(data') = height' * width'
          /\ \A r \in 0..(height' - 1), c \in 0..(width' - 1) :
                (r < height /\ c < width) => NewAt(r, c) = OldAt(r, c)]_vars

\* the sum over k, from k on, of l[i][k] * r[k][j], starting from zero
RECURSIVE DotFrom(_, _, _, _, _)
DotFrom(l, r, i, j, k) ==
    IF k >= l.w THEN 0
    ELSE At(l.d, l.w, i, k) * At(r.d, r.w, k, j) + DotFrom(l, r, i, j, k + 1)

\* the right operand of the product the step has computed
Other == Mat(ret'.loc[1], ret'.loc[2], ret'.res)

\* C14: a product of matrices with L.width = R.height completes, has shape
\* (L.height, R.width) and holds in each cell (i, j) the sum over k of
\* L[i][k] * R[k][j]; so A * identity(A.width) = A = identity(A.height) * A;
\* a product with L.width # R.height fails fatally.
MulIsMatrixProduct ==
    [][ret'.op = "mul" =>
          IF width = Other.h
          THEN /\ ret'.out = "ok"
               /\ height' = height
               /\ width' = Other.w
               /\ Len(data') = height * Other.w
               /\ \A i \in 0..(height - 1), j \in 0..(Other.w - 1) :
                     NewAt(i, j) = DotFrom(Self, Other, i, j, 0)
               /\ Other = identity(width) => SelfNext = Self
               /\ Self = identity(Other.h) => SelfNext = Other
          ELSE ret'.out = "panic"]_vars

\* one line of a displayed matrix: every element of the row followed by a
\* space
RECURSIVE LineOf(_, _)
LineOf(row, c) ==
    IF c > Len(row) THEN "" ELSE ToString(row[c]) \o " " \o LineOf(row, c + 1)

\* the lines of the rows from r on, each ended by a newline
RECURSIVE LinesOf(_, _)
LinesOf(rows, r) ==
    IF r > Len(rows) THEN "" ELSE LineOf(rows[r], 1) \o "\n" \o LinesOf(rows, r + 1)

\* C15: displaying a matrix of any shape completes and writes height lines,
\* line r holding the width elements of row r in order, each followed by a
\* space, and each line ended by a newline.
DisplayWritesEveryRow ==
    ret.op = "fmt" => (ret.out = "ok" /\ ret.res = LinesOf(as_vec(Self), 1))

\* x to the power n
RECURSIVE Power(_, _)
Power(x, n) == IF n = 0 THEN 1 ELSE x * Power(x, n - 1)

\* the product, from pivot step i on, of the pivot of every step that found
\* one, taken once for each of the h - 1 - i rows below it.  Row i is final
\* once step i is done, so the pivot of step i is the diagonal entry i of the
\* eliminated matrix, and that entry is zero when the step found no pivot.
RECURSIVE PivotScale(_, _, _, _)
PivotScale(mat, i, h, w) ==
    IF i >= h THEN 1
    ELSE (IF At(mat, w, i, i) = 0 THEN 1 ELSE Power(At(mat, w, i, i), h - 1 - i))
         * PivotScale(mat, i + 1, h, w)

\* C16: the final division of determinant is exact: for a square matrix
\* total is not zero at the end of the elimination, it is the product of the
\* pivot of every pivot step taken once for every row eliminated in the step,
\* and the signed product of the diagonal of the eliminated matrix is a
\* multiple of it, the returned value times total.
FinalDivisionIsExact ==
    (ret.op = "determinant" /\ height = width) =>
        LET e == Elimination(Self)
        IN  /\ e.total # 0
            /\ e.total = PivotScale(e.mat, 0, height, width)
            /\ ret.out = "some"
            /\ ret.val * e.total = e.det

\* C16: the determinant of the 4 x 4 test matrix has been returned, 30, the
\* quotient of -180 and a total of -6
DividedByTotal ==
    /\ ret.op = "determinant"
    /\ height = 4
    /\ ret.val = 30
    /\ Elimination(Self).total = 0 - 6
    /\ Elimination(Self).det = 0 - 180

=============================================================================
